---- MODULE Spec2Model ----
(***************************************************************************)
(* Smart Research Assistant: the Streamlit script (app.py), the document   *)
(* processor (core/document_processor.py) and the LLM functions            *)
(* (core/llm_functions.py).                                                *)
(*                                                                         *)
(* Representation.  A Python str that the code inspects character by       *)
(* character (a chunk, a response line, a question) is a sequence of       *)
(* one-character strings; a text the code only passes around (a prompt, a  *)
(* generated answer) is a TLA+ string; a summary is its sequence of words  *)
(* (str.split()).  Python lists are sequences, indices are 1-based here.   *)
(* A call that can raise returns a record with a field "raised".           *)
(***************************************************************************)
EXTENDS Integers, Sequences, FiniteSets, TLC

VARIABLES
    \* st.session_state (app.py 46-67)
    document_text, text_chunks, chunk_embeddings, document_summary,
    challenge_questions, challenge_answers, challenge_evaluations,
    uploaded_file_id, file_processed, embeddings_generated, messages,
    \* the file_uploader widget's current file (app.py 72)
    uploaded_file,
    \* what the last script run did: the external calls of its upload section,
    \* the gate warnings it showed, whether an exception ended it
    run,
    \* a direct call of one core function: its arguments and what it returned
    args, ret

session_vars == <<document_text, text_chunks, chunk_embeddings, document_summary,
                  challenge_questions, challenge_answers, challenge_evaluations,
                  uploaded_file_id, file_processed, embeddings_generated, messages,
                  uploaded_file, run>>

vars == <<session_vars, args, ret>>

----------------------------------------------------------------------------
(* Bounds of the model *)

MaxLineLen == 4      \* characters in one response line
MaxLines == 2        \* lines in one generated response
MaxQuestions == 2    \* largest num_questions tried in a direct call
MaxChunks == 3       \* chunks / embeddings handed to find_relevant_chunks
MaxTopK == 3         \* largest top_k tried in a direct call
MaxHeld == 2         \* chunks / embeddings held when an LLM function is called directly
MaxMessages == 2     \* chat messages kept before the model stops asking

----------------------------------------------------------------------------
(* Python values *)

None == <<>>         \* None, and the empty str / list: all falsy

Truthy(x) == x # <<>>

Max(a, b) == IF a >= b THEN a ELSE b

Min(a, b) == IF a <= b THEN a ELSE b

\* xs[:n]
Take(xs, n) == SubSeq(xs, 1, Min(Len(xs), Max(n, 0)))

\* all sequences over S of length lo..hi
SeqsOf(S, lo, hi) == UNION {[1..n -> S] : n \in lo..hi}

Range(f) == {f[i] : i \in DOMAIN f}

\* F(v), with v evaluated once (a LET would evaluate it at every use)
Bind(v, F(_)) == CHOOSE y \in {F(x) : x \in {v}} : TRUE

----------------------------------------------------------------------------
(* str methods used by the code *)

Chars == {"Q", "1", ":", " ", "a"}

IsDigit(c) == c = "1"

RECURSIVE LStrip(_)
LStrip(s) == IF s # <<>> /\ Head(s) = " " THEN LStrip(Tail(s)) ELSE s

RECURSIVE RStrip(_)
RStrip(s) == IF s # <<>> /\ s[Len(s)] = " " THEN RStrip(SubSeq(s, 1, Len(s) - 1)) ELSE s

\* str.strip()
Strip(s) == RStrip(LStrip(s))

\* line.startswith("Q")
StartsWithQ(s) == Len(s) >= 1 /\ s[1] = "Q"

\* ":" in line
HasColon(s) == \E i \in 1..Len(s) : s[i] = ":"

\* line.split(":", 1)[1]
AfterFirstColon(s) ==
    LET i == CHOOSE k \in 1..Len(s) : s[k] = ":" /\ \A j \in 1..(k - 1) : s[j] # ":"
    IN  SubSeq(s, i + 1, Len(s))

----------------------------------------------------------------------------
(* core/document_processor.py *)

\* Outcome of one external call: it raised, or it returned `value`.
Raised == [raised |-> TRUE, value |-> <<>>]

Returned(v) == [raised |-> FALSE, value |-> v]

\* get_text_chunks: the document is held as the pieces split_text cuts it into;
\* the pieces that are empty after strip() are dropped, the others stripped.
RECURSIVE get_text_chunks(_)
get_text_chunks(text) ==
    IF text = <<>> THEN <<>>
    ELSE LET chunk == Strip(Head(text))
         IN  (IF chunk # <<>> THEN <<chunk>> ELSE <<>>) \o get_text_chunks(Tail(text))

\* get_embeddings: one embed_content call per text; responses[i] is the outcome
\* of the call for texts[i].  A failed call appends None, and the None entries
\* are filtered out of the returned list.
RECURSIVE get_embeddings(_, _)
get_embeddings(texts, responses) ==
    IF texts = <<>> THEN <<>>
    ELSE (IF responses[1].raised THEN <<>> ELSE <<responses[1].value>>)
         \o get_embeddings(Tail(texts), Tail(responses))

Dot(a, b) == a[1] * b[1] + a[2] * b[2]

\* cosine_similarity(q, a) < cosine_similarity(q, b), for non-zero vectors:
\* (q.a)/(|q||a|) < (q.b)/(|q||b|), compared exactly on the squares.
SimLess(q, a, b) ==
    LET da == Dot(q, a)
        db == Dot(q, b)
        na == Dot(a, a)
        nb == Dot(b, b)
    IN  IF da < 0 /\ db >= 0 THEN TRUE
        ELSE IF da >= 0 /\ db < 0 THEN FALSE
        ELSE IF da >= 0 THEN da * da * nb < db * db * na
        ELSE da * da * nb > db * db * na

Permutations_(n) == {p \in [1..n -> 1..n] : \A i, j \in 1..n : p[i] = p[j] => i = j}

\* the ranking without the reversal [::-1]: smallest similarity first
Rankings_Ascending(q, embeddings) ==
    {p \in Permutations_(Len(embeddings)) :
        \A i, j \in 1..Len(embeddings) :
            i < j => ~SimLess(q, embeddings[p[j]], embeddings[p[i]])}

\* similarities.argsort()[::-1]: the indices by similarity, largest first.  The
\* default argsort is not a stable sort, so among equal similarities every
\* order is a possible result.
Rankings(q, embeddings) ==
    {p \in Permutations_(Len(embeddings)) :
        \A i, j \in 1..Len(embeddings) :
            i < j => ~SimLess(q, embeddings[p[i]], embeddings[p[j]])}

\* the loop deduplicating by index instead of by chunk text
RECURSIVE SelectLoop_DedupByIndex(_, _, _, _, _)
SelectLoop_DedupByIndex(sorted_indices, chunks, top_k, pos, selected_indices) ==
    IF pos > Len(sorted_indices)
    THEN [raised |-> FALSE, selected |-> selected_indices, walked |-> Len(sorted_indices)]
    ELSE LET idx == sorted_indices[pos]
         IN  IF idx > Len(chunks)
             THEN [raised |-> TRUE, selected |-> selected_indices, walked |-> pos]
             ELSE LET sel == IF idx \notin Range(selected_indices)
                             THEN Append(selected_indices, idx)
                             ELSE selected_indices
                  IN  IF Len(sel) >= top_k
                      THEN [raised |-> FALSE, selected |-> sel, walked |-> pos]
                      ELSE SelectLoop_DedupByIndex(sorted_indices, chunks, top_k, pos + 1, sel)

\* The loop of lines 68-73 from position pos of sorted_indices on:
\* text_chunks[idx] raises IndexError when idx is past the end of text_chunks.
RECURSIVE SelectLoop(_, _, _, _, _)
SelectLoop(sorted_indices, chunks, top_k, pos, selected_indices) ==
    IF pos > Len(sorted_indices)
    THEN [raised |-> FALSE, selected |-> selected_indices, walked |-> Len(sorted_indices)]
    ELSE LET idx == sorted_indices[pos]
         IN  IF idx > Len(chunks)
             THEN [raised |-> TRUE, selected |-> selected_indices, walked |-> pos]
             ELSE LET sel == IF chunks[idx] \notin {chunks[s] : s \in Range(selected_indices)}
                             THEN Append(selected_indices, idx)
                             ELSE selected_indices
                  IN  IF Len(sel) >= top_k
                      THEN [raised |-> FALSE, selected |-> sel, walked |-> pos]
                      ELSE SelectLoop(sorted_indices, chunks, top_k, pos + 1, sel)

SnippetLimit == 150

\* chunk_content[:150] + "..." if len(chunk_content) > 150 else chunk_content
Snippet(chunk_content) ==
    IF Len(chunk_content) > SnippetLimit
    THEN Take(chunk_content, SnippetLimit) \o <<".", ".", ".">>
    ELSE chunk_content

\* find_relevant_chunks without the short-circuit of lines 57-58
find_relevant_chunks_NoShortCircuit(query_embedding, chunks, embeddings, top_k, sorted_indices) ==
    IF query_embedding.raised
    THEN [raised |-> TRUE, value |-> <<>>, embed_calls |-> 1, selected |-> <<>>, walked |-> 0]
    ELSE Bind(SelectLoop(sorted_indices, chunks, top_k, 1, <<>>), LAMBDA loop :
             LET sel == loop.selected
             IN  [raised |-> loop.raised,
                  value |-> IF loop.raised THEN <<>>
                            ELSE << [i \in 1..Len(sel) |-> chunks[sel[i]]],
                                    [i \in 1..Len(sel) |->
                                        <<"From document", Snippet(chunks[sel[i]])>>],
                                    [i \in 1..Len(sel) |-> chunks[sel[i]]] >>,
                  embed_calls |-> 1, selected |-> sel, walked |-> loop.walked])

\* find_relevant_chunks.  query_embedding is the outcome of the embed_content
\* call for the query, sorted_indices the ranking argsort yields.  The result
\* carries the number of embed_content calls made.
find_relevant_chunks(query_embedding, chunks, embeddings, top_k, sorted_indices) ==
    IF ~Truthy(embeddings)
    THEN [raised |-> FALSE, value |-> <<<<>>, <<>>, <<>>>>, embed_calls |-> 0,
          selected |-> <<>>, walked |-> 0]
    ELSE IF query_embedding.raised
    THEN [raised |-> TRUE, value |-> <<>>, embed_calls |-> 1, selected |-> <<>>, walked |-> 0]
    ELSE Bind(SelectLoop(sorted_indices, chunks, top_k, 1, <<>>), LAMBDA loop :
             LET sel == loop.selected
             IN  IF loop.raised
                 THEN [raised |-> TRUE, value |-> <<>>, embed_calls |-> 1,
                       selected |-> sel, walked |-> loop.walked]
                 ELSE [raised |-> FALSE,
                       value |-> << [i \in 1..Len(sel) |-> chunks[sel[i]]],
                                    [i \in 1..Len(sel) |->
                                        <<"From document", Snippet(chunks[sel[i]])>>],
                                    [i \in 1..Len(sel) |-> chunks[sel[i]]] >>,
                       embed_calls |-> 1, selected |-> sel, walked |-> loop.walked])

----------------------------------------------------------------------------
(* core/llm_functions.py *)
(* `gen` is the outcome of generation_model.generate_content(prompt) with   *)
(* response.text: Raised, or Returned(text).  Each function returns a       *)
(* record: raised (an exception left the function), value (what it          *)
(* returned) and calls (the external services it called).                   *)

NO_TEXT_FOR_SUMMARY == <<"No", "document", "text", "available", "for", "summarization.">>

COULD_NOT_GENERATE_SUMMARY == <<"Could", "not", "generate", "summary.">>

SummaryWordLimit == 150

get_document_summary(text, gen) ==
    IF ~Truthy(text)
    THEN [raised |-> FALSE, value |-> NO_TEXT_FOR_SUMMARY, calls |-> {}]
    ELSE IF gen.raised
    THEN [raised |-> FALSE, value |-> COULD_NOT_GENERATE_SUMMARY, calls |-> {"generate"}]
    ELSE [raised |-> FALSE,
          value |-> IF Len(gen.value) > SummaryWordLimit
                    THEN Take(gen.value, SummaryWordLimit) \o <<"...">>
                    ELSE gen.value,
          calls |-> {"generate"}]

TopKAnswer == 5

answer_question_with_rag(question, text, chunks, embeddings, gen, query_embedding, sorted_indices) ==
    IF ~Truthy(text)
    THEN [raised |-> FALSE, calls |-> {},
          value |-> <<"Please upload a document first.", <<"No document available.">>, <<>>>>]
    ELSE Bind(find_relevant_chunks(query_embedding, chunks, embeddings,
                                   TopKAnswer, sorted_indices), LAMBDA found :
             LET embed == IF found.embed_calls > 0 THEN {"embed_query"} ELSE {}
             IN  IF found.raised
                 THEN [raised |-> TRUE, calls |-> embed, value |-> <<>>]
                 ELSE IF ~Truthy(found.value[1])
                 THEN [raised |-> FALSE, calls |-> embed,
                       value |-> <<"Could not find relevant information in the document.",
                                   <<"No relevant chunks found.">>, <<>>>>]
                 ELSE IF gen.raised
                 THEN [raised |-> FALSE, calls |-> embed \cup {"generate"},
                       value |-> <<"Error generating answer.",
                                   <<"An error occurred during generation.">>, <<>>>>]
                 ELSE [raised |-> FALSE, calls |-> embed \cup {"generate"},
                       value |-> <<gen.value, <<"Based on: ", found.value[2]>>,
                                   found.value[3]>>])

\* The loop of lines 85-92 from line i of the response on.
RECURSIVE ParseLoop(_, _, _, _)
ParseLoop(lines, i, parsed_questions, num_questions) ==
    IF i > Len(lines) THEN parsed_questions
    ELSE LET line == Strip(lines[i])
             q_text == Strip(AfterFirstColon(line))
             parsed == IF StartsWithQ(line) /\ HasColon(line) /\ q_text # <<>>
                       THEN Append(parsed_questions, q_text)
                       ELSE parsed_questions
         IN  IF Len(parsed) >= num_questions THEN parsed
             ELSE ParseLoop(lines, i + 1, parsed, num_questions)

\* gen.value is the response text as its lines, questions_raw.split('\n').
generate_challenge_questions(text, gen, num_questions) ==
    IF ~Truthy(text)
    THEN [raised |-> FALSE, value |-> <<>>, calls |-> {}]
    ELSE IF gen.raised
    THEN [raised |-> FALSE, value |-> <<>>, calls |-> {"generate"}]
    ELSE [raised |-> FALSE, calls |-> {"generate"},
          value |-> Take(ParseLoop(gen.value, 1, <<>>, num_questions), num_questions)]

TopKEvaluate == 5

DefaultNumQuestions == 3

\* "N/A" as a context
NA == <<<<"N", "/", "A">>>>

evaluate_user_answer(question, user_answer, text, chunks, embeddings, gen, query_embedding, sorted_indices) ==
    Bind(find_relevant_chunks(query_embedding, chunks, embeddings,
                              TopKEvaluate, sorted_indices), LAMBDA found :
        LET embed == IF found.embed_calls > 0 THEN {"embed_query"} ELSE {}
        IN  IF found.raised
            THEN [raised |-> TRUE, calls |-> embed, value |-> <<>>]
            ELSE IF ~Truthy(found.value[1])
            THEN [raised |-> FALSE, calls |-> embed,
                  value |-> <<"Could not find relevant document context for evaluation.", NA>>]
            ELSE IF gen.raised
            THEN [raised |-> FALSE, calls |-> embed \cup {"generate"},
                  value |-> <<"Error during evaluation.", NA>>]
            ELSE [raised |-> FALSE, calls |-> embed \cup {"generate"},
                  value |-> <<gen.value, found.value[1]>>])

----------------------------------------------------------------------------
(* The session state after the initialisation of app.py 46-67 *)

AWAITING_UPLOAD == <<"Awaiting", "document", "upload.">>

AWAITING_SUMMARY == <<"Awaiting", "summary", "generation...">>

FAILED_SUMMARY == <<"Failed", "to", "generate", "summary.">>

NoRun == [calls |-> {}, warned |-> {}, crashed |-> FALSE,
          new_upload |-> FALSE, extraction |-> "not_run", processed |-> FALSE,
          embed_calls |-> 0, embed_failures |-> 0, interaction_enabled |-> FALSE]

SessionInit ==
    /\ document_text = None
    /\ text_chunks = <<>>
    /\ chunk_embeddings = <<>>
    /\ document_summary = AWAITING_UPLOAD
    /\ challenge_questions = <<>>
    /\ challenge_answers = <<>>
    /\ challenge_evaluations = <<>>
    /\ uploaded_file_id = 0
    /\ file_processed = FALSE
    /\ embeddings_generated = FALSE
    /\ messages = <<>>
    /\ uploaded_file = [file_id |-> 0, type |-> "none"]
    /\ run = NoRun

----------------------------------------------------------------------------
(* Direct calls of find_relevant_chunks: every query outcome, every pair of *)
(* chunk and embedding lists (aligned or not), every top_k.                 *)

ChunkTexts == {<<"a">>, <<"b">>}

\* embeddings: equal, orthogonal and opposed directions, unequal norms
Vecs == {<<1, 0>>, <<0, 1>>, <<-2, 1>>}

EmbedOutcomes == {Raised} \cup {Returned(v) : v \in Vecs}

NoCall == [done |-> FALSE]

RankingsFor(query_embedding, embeddings) ==
    IF query_embedding.raised \/ embeddings = <<>>
    THEN {<<>>}
    ELSE Rankings(query_embedding.value, embeddings)

InitRetrieve ==
    /\ SessionInit
    /\ ret = NoCall
    /\ args \in [query_embedding : EmbedOutcomes,
                 text_chunks : SeqsOf(ChunkTexts, 0, MaxChunks),
                 chunk_embeddings : SeqsOf(Vecs, 0, MaxChunks),
                 top_k : 0..MaxTopK]

CallFindRelevantChunks ==
    /\ ~ret.done
    /\ \E sorted_indices \in RankingsFor(args.query_embedding, args.chunk_embeddings) :
          LET r == find_relevant_chunks(args.query_embedding, args.text_chunks,
                                        args.chunk_embeddings, args.top_k, sorted_indices)
          IN  ret' = [done |-> TRUE, raised |-> r.raised, value |-> r.value,
                      embed_calls |-> r.embed_calls, selected |-> r.selected,
                      walked |-> r.walked, sorted_indices |-> sorted_indices]
    /\ UNCHANGED <<session_vars, args>>

NextRetrieve == CallFindRelevantChunks

SpecRetrieve == InitRetrieve /\ [][NextRetrieve]_vars

----------------------------------------------------------------------------
(* Claims about find_relevant_chunks, checked under SpecRetrieve *)

Returned_ == ret.done /\ ~ret.raised

Aligned == Len(args.text_chunks) = Len(args.chunk_embeddings)

\* position of index idx in the returned selection, 0 when it is not selected
PosOf(idx) ==
    IF \E p \in 1..Len(ret.selected) : ret.selected[p] = idx
    THEN CHOOSE p \in 1..Len(ret.selected) : ret.selected[p] = idx
    ELSE 0

\* C5: for every top_k = K >= 0 and every input with non-empty embeddings,
\* find_relevant_chunks returns at most K chunks, each an element of the
\* input text_chunks.
C5_TopKBound ==
    (Returned_ /\ args.chunk_embeddings # <<>>) =>
        /\ Len(ret.value[1]) <= args.top_k
        /\ \A i \in 1..Len(ret.value[1]) : ret.value[1][i] \in Range(args.text_chunks)

\* C6: find_relevant_chunks never returns two chunks with identical text; of
\* the ranked indices it walks, an index is left out exactly when its chunk
\* text equals the text of a chunk selected before it, and the walk stops
\* only at the end of the ranking or once top_k chunks are selected.
C6_DedupByText ==
    Returned_ =>
        /\ \A i, j \in 1..Len(ret.value[1]) : ret.value[1][i] = ret.value[1][j] => i = j
        /\ \A p \in 1..ret.walked :
              LET idx == ret.sorted_indices[p]
              IN  (PosOf(idx) = 0) <=>
                      \E p2 \in 1..(p - 1) :
                          /\ PosOf(ret.sorted_indices[p2]) # 0
                          /\ args.text_chunks[ret.sorted_indices[p2]] = args.text_chunks[idx]
        /\ \A p \in (ret.walked + 1)..Len(ret.sorted_indices) : PosOf(ret.sorted_indices[p]) = 0
        /\ ret.walked < Len(ret.sorted_indices) => Len(ret.selected) >= args.top_k
        /\ ret.value[1] = [i \in 1..Len(ret.selected) |-> args.text_chunks[ret.selected[i]]]

\* a duplicate text was ranked, walked and skipped, and a different text after it selected
C6_Witness ==
    /\ Returned_
    /\ \E p \in 1..ret.walked :
          /\ PosOf(ret.sorted_indices[p]) = 0
          /\ \E p2 \in (p + 1)..ret.walked : PosOf(ret.sorted_indices[p2]) # 0

\* C7: with aligned inputs the returned chunks are in non-increasing order of
\* similarity to the query; a chunk that is not returned has a similarity no
\* greater than the last returned chunk's or the text of a returned chunk; a
\* chunk whose vector equals the query vector comes (by its text) strictly
\* before any returned chunk whose vector is orthogonal to the query.
C7_RankedBySimilarity ==
    (Returned_ /\ Aligned /\ args.chunk_embeddings # <<>>) =>
        LET q == args.query_embedding.value
            emb == args.chunk_embeddings
            sel == ret.selected
        IN  /\ sel # <<>>
            /\ \A i, j \in 1..Len(sel) : i < j => ~SimLess(q, emb[sel[i]], emb[sel[j]])
            /\ \A idx \in 1..Len(emb) :
                  PosOf(idx) = 0 =>
                      \/ ~SimLess(q, emb[sel[Len(sel)]], emb[idx])
                      \/ \E s \in Range(sel) : args.text_chunks[s] = args.text_chunks[idx]
            /\ \A a, b \in 1..Len(emb) :
                  (emb[a] = q /\ Dot(q, emb[b]) = 0 /\ PosOf(b) # 0) =>
                      \E p \in 1..(PosOf(b) - 1) :
                          args.text_chunks[sel[p]] = args.text_chunks[a]

\* a chunk equal to the query and an orthogonal chunk are both returned, the
\* orthogonal one having the smaller index
C7_Witness ==
    /\ Returned_ /\ Aligned
    /\ \E a, b \in 1..Len(args.chunk_embeddings) :
          /\ b < a
          /\ args.chunk_embeddings[a] = args.query_embedding.value
          /\ Dot(args.query_embedding.value, args.chunk_embeddings[b]) = 0
          /\ PosOf(a) # 0 /\ PosOf(b) # 0

\* C8: with empty chunk_embeddings find_relevant_chunks returns three empty
\* sequences, raises nothing and calls the embedding service not at all, for
\* every query, every text_chunks and every top_k.
C8_EmptyShortCircuit ==
    (ret.done /\ args.chunk_embeddings = <<>>) =>
        /\ ~ret.raised
        /\ ret.value = <<<<>>, <<>>, <<>>>>
        /\ ret.embed_calls = 0

\* called with no embeddings, chunks present, and an embedding service that would fail
C8_Witness ==
    /\ ret.done
    /\ args.chunk_embeddings = <<>>
    /\ args.text_chunks # <<>>
    /\ args.query_embedding.raised

----------------------------------------------------------------------------
(* Direct calls of generate_challenge_questions: every response of up to    *)
(* MaxLines lines of up to MaxLineLen characters, or a failed generation.   *)

Lines == SeqsOf(Chars, 0, MaxLineLen)

\* a document of one chunk
OneChunkDocument == <<<<"a">>>>

InitQuestions ==
    /\ SessionInit
    /\ ret = NoCall
    /\ args \in [document_text : {OneChunkDocument},
                 gen : {Raised} \cup {Returned(r) : r \in SeqsOf(Lines, 1, MaxLines)},
                 num_questions : 0..MaxQuestions]

CallGenerateChallengeQuestions ==
    /\ ~ret.done
    /\ LET r == generate_challenge_questions(args.document_text, args.gen, args.num_questions)
       IN  ret' = [done |-> TRUE, raised |-> r.raised, value |-> r.value, calls |-> r.calls]
    /\ UNCHANGED <<session_vars, args>>

NextQuestions == CallGenerateChallengeQuestions

SpecQuestions == InitQuestions /\ [][NextQuestions]_vars

\* The labelled format Q<k>: <text> of the prompt (line 74): after the
\* surrounding whitespace, a "Q", one or more digits, a colon, and a text that
\* is not empty once stripped.
LabelEnd(s) ==
    IF \E k \in 3..Len(s) : s[k] = ":" /\ \A j \in 2..(k - 1) : IsDigit(s[j])
    THEN CHOOSE k \in 3..Len(s) : s[k] = ":" /\ \A j \in 2..(k - 1) : IsDigit(s[j])
    ELSE 0

LabelledFormat(line) ==
    LET s == Strip(line)
    IN  /\ StartsWithQ(s)
        /\ LabelEnd(s) # 0
        /\ Strip(SubSeq(s, LabelEnd(s) + 1, Len(s))) # <<>>

LabelledText(line) ==
    LET s == Strip(line)
    IN  Strip(SubSeq(s, LabelEnd(s) + 1, Len(s)))

RECURSIVE LabelledTexts(_)
LabelledTexts(lines) ==
    IF lines = <<>> THEN <<>>
    ELSE (IF LabelledFormat(Head(lines)) THEN <<LabelledText(Head(lines))>> ELSE <<>>)
         \o LabelledTexts(Tail(lines))

\* C9: generate_challenge_questions with num_questions = n returns, in
\* response order, the question texts of the first n response lines of the
\* format Q<k>: <text>, and nothing else.
C9_ParsesLabelledLines ==
    (ret.done /\ ~args.gen.raised) =>
        /\ ~ret.raised
        /\ ret.value = Take(LabelledTexts(args.gen.value), args.num_questions)

----------------------------------------------------------------------------
(* Direct calls of the four LLM functions, with every outcome of the        *)
(* external calls they make.  The chunk and embedding lists are those the   *)
(* script can hold: never fewer chunks than embeddings.                     *)

GeneratedSummaries == {<<"A", "summary.">>, <<"Error", "429">>}

GeneratedAnswers == {"An answer."}

GeneratedVerdicts == {"Evaluation: Correct"}

GeneratedResponses ==
    { <<<<"Q", "1", ":", "a">>>>,
      <<<<"Q", "1", ":", "a">>, <<"a">>, <<"Q", "1", ":", "1">>>>,
      <<<<"a">>>> }

Gen(raised, texts) == IF raised THEN {Raised} ELSE {Returned(t) : t \in texts}

FALLBACK_SUMMARY == COULD_NOT_GENERATE_SUMMARY

FALLBACK_ANSWER == <<"Error generating answer.", <<"An error occurred during generation.">>, <<>>>>

FALLBACK_QUESTIONS == <<>>

FALLBACK_EVALUATION == <<"Error during evaluation.", NA>>

InitLLM ==
    /\ SessionInit
    /\ ret = NoCall
    /\ args \in {a \in [document_text : {None, OneChunkDocument},
                        text_chunks : SeqsOf(ChunkTexts, 0, MaxHeld),
                        chunk_embeddings : SeqsOf(Vecs, 0, MaxHeld),
                        gen_raised : BOOLEAN,
                        query_embedding : EmbedOutcomes] :
                    /\ Len(a.text_chunks) >= Len(a.chunk_embeddings)
                    /\ a.document_text = None => a.text_chunks = <<>>}

Done(fn, r, fallback) ==
    [done |-> TRUE, fn |-> fn, raised |-> r.raised, calls |-> r.calls,
     fallback |-> (~r.raised /\ r.value = fallback)]

CallGetDocumentSummary ==
    /\ ~ret.done
    /\ \E gen \in Gen(args.gen_raised, GeneratedSummaries) :
          ret' = Done("get_document_summary",
                      get_document_summary(args.document_text, gen), FALLBACK_SUMMARY)
    /\ UNCHANGED <<session_vars, args>>

CallAnswerQuestionWithRag ==
    /\ ~ret.done
    /\ \E gen \in Gen(args.gen_raised, GeneratedAnswers),
          sorted_indices \in RankingsFor(args.query_embedding, args.chunk_embeddings) :
          ret' = Done("answer_question_with_rag",
                      answer_question_with_rag("q", args.document_text, args.text_chunks,
                                               args.chunk_embeddings, gen,
                                               args.query_embedding, sorted_indices),
                      FALLBACK_ANSWER)
    /\ UNCHANGED <<session_vars, args>>

CallGenerateQuestions ==
    /\ ~ret.done
    /\ \E gen \in Gen(args.gen_raised, GeneratedResponses) :
          ret' = Done("generate_challenge_questions",
                      generate_challenge_questions(args.document_text, gen, DefaultNumQuestions),
                      FALLBACK_QUESTIONS)
    /\ UNCHANGED <<session_vars, args>>

CallEvaluateUserAnswer ==
    /\ ~ret.done
    /\ \E gen \in Gen(args.gen_raised, GeneratedVerdicts),
          sorted_indices \in RankingsFor(args.query_embedding, args.chunk_embeddings) :
          ret' = Done("evaluate_user_answer",
                      evaluate_user_answer(<<"a">>, "x", args.document_text, args.text_chunks,
                                           args.chunk_embeddings, gen,
                                           args.query_embedding, sorted_indices),
                      FALLBACK_EVALUATION)
    /\ UNCHANGED <<session_vars, args>>

NextLLM ==
    \/ CallGetDocumentSummary
    \/ CallAnswerQuestionWithRag
    \/ CallGenerateQuestions
    \/ CallEvaluateUserAnswer

SpecLLM == InitLLM /\ [][NextLLM]_vars

\* an external call the function made failed
ExternalCallFailed ==
    \/ "embed_query" \in ret.calls /\ args.query_embedding.raised
    \/ "generate" \in ret.calls /\ args.gen_raised

\* C4: each of the four LLM functions, when an external call it makes fails
\* (the generative call, or the query embedding inside find_relevant_chunks),
\* returns its fixed fallback value and lets no exception reach the caller.
C4_FallbackNeverRaises ==
    ret.done => /\ ~ret.raised
                /\ ExternalCallFailed => ret.fallback

----------------------------------------------------------------------------
(* app.py: one script run.  A run is carried out on a record c holding the  *)
(* session state and the log of the run (the external calls of the upload   *)
(* section, lines 74-146; the warnings of the gates, lines 180 and 271;     *)
(* whether an exception ended the run); the variables take the record's     *)
(* values when the run ends, also when it ends by an exception (Streamlit   *)
(* keeps what the script wrote to st.session_state).                        *)

NoFile == [file_id |-> 0, type |-> "none"]

Files == { [file_id |-> 1, type |-> "application/pdf"],
           [file_id |-> 2, type |-> "text/plain"],
           [file_id |-> 3, type |-> "application/octet-stream"] }

\* The documents uploaded, each as the pieces the splitter cuts it into: only
\* whitespace, one chunk, two chunks around a blank piece.
Documents == { <<<<" ">>>>,
               <<<<"a", " ">>>>,
               <<<<" ", "a">>, <<" ">>, <<"b">>>> }

\* the vector the embedding service returns for a chunk
EmbeddingOf(chunk) == IF chunk = <<"a">> THEN <<1, 0>> ELSE <<0, 1>>

\* What extract_text_from_pdf / extract_text_from_txt can do with a file of the
\* given type (lines 93-100): raise, return "" or return a text; for another
\* type neither is called and document_content is None.
ExtractOutcomes(type) ==
    IF type \in {"application/pdf", "text/plain"}
    THEN {[kind |-> "raised", content |-> None], [kind |-> "empty", content |-> <<>>]}
         \cup {[kind |-> "text", content |-> d] : d \in Documents}
    ELSE {[kind |-> "unsupported", content |-> None]}

Begin ==
    [document_text |-> document_text, text_chunks |-> text_chunks,
     chunk_embeddings |-> chunk_embeddings, document_summary |-> document_summary,
     challenge_questions |-> challenge_questions, challenge_answers |-> challenge_answers,
     challenge_evaluations |-> challenge_evaluations, uploaded_file_id |-> uploaded_file_id,
     file_processed |-> file_processed, embeddings_generated |-> embeddings_generated,
     messages |-> messages,
     calls |-> {}, warned |-> {}, crashed |-> FALSE,
     new_upload |-> FALSE, extraction |-> "not_run", processed |-> FALSE,
     embed_calls |-> 0, embed_failures |-> 0, interaction_enabled |-> FALSE]

\* the reset forgetting document_text
ResetForNewUpload_KeepsText(c, file) ==
    [c EXCEPT !.uploaded_file_id = file.file_id,
              !.text_chunks = <<>>,
              !.chunk_embeddings = <<>>,
              !.document_summary = AWAITING_SUMMARY,
              !.file_processed = FALSE,
              !.embeddings_generated = FALSE,
              !.messages = <<>>,
              !.challenge_questions = <<>>,
              !.challenge_answers = <<>>,
              !.challenge_evaluations = <<>>,
              !.new_upload = TRUE]

\* the reset leaving the chat history of the previous document
ResetForNewUpload_KeepsMessages(c, file) ==
    [c EXCEPT !.uploaded_file_id = file.file_id,
              !.document_text = None,
              !.text_chunks = <<>>,
              !.chunk_embeddings = <<>>,
              !.document_summary = AWAITING_SUMMARY,
              !.file_processed = FALSE,
              !.embeddings_generated = FALSE,
              !.challenge_questions = <<>>,
              !.challenge_answers = <<>>,
              !.challenge_evaluations = <<>>,
              !.new_upload = TRUE]

\* lines 77-89
ResetForNewUpload(c, file) ==
    [c EXCEPT !.uploaded_file_id = file.file_id,
              !.document_text = None,
              !.text_chunks = <<>>,
              !.chunk_embeddings = <<>>,
              !.document_summary = AWAITING_SUMMARY,
              !.file_processed = FALSE,
              !.embeddings_generated = FALSE,
              !.messages = <<>>,
              !.challenge_questions = <<>>,
              !.challenge_answers = <<>>,
              !.challenge_evaluations = <<>>,
              !.new_upload = TRUE]

\* lines 91-113
ExtractText(c, file, extraction) ==
    LET called == IF extraction.kind = "unsupported" THEN {} ELSE {"extract"}
        d == [c EXCEPT !.calls = @ \cup called, !.extraction = extraction.kind]
    IN  IF extraction.kind = "raised"
        THEN [d EXCEPT !.file_processed = FALSE]
        ELSE IF Truthy(extraction.content)
        THEN [d EXCEPT !.document_text = extraction.content, !.file_processed = TRUE]
        ELSE [d EXCEPT !.file_processed = FALSE]

\* line 76
NewUpload(c, file) == file # NoFile /\ c.uploaded_file_id # file.file_id

\* line 116
ChunkGate(c) == Truthy(c.document_text) /\ ~c.embeddings_generated

\* the block storing the embeddings without setting embeddings_generated
ChunkAndEmbed_FlagNotSet(c, chunking_raised, fails) ==
    IF ~ChunkGate(c) THEN c
    ELSE IF chunking_raised
    THEN [c EXCEPT !.calls = @ \cup {"split"},
                   !.embeddings_generated = FALSE,
                   !.document_text = None,
                   !.text_chunks = <<>>,
                   !.chunk_embeddings = <<>>]
    ELSE LET chunks == get_text_chunks(c.document_text)
             responses == [i \in 1..Len(chunks) |->
                              IF i \in fails THEN Raised
                              ELSE Returned(EmbeddingOf(chunks[i]))]
         IN  [c EXCEPT !.calls = @ \cup {"split"}
                                   \cup (IF chunks # <<>> THEN {"embed_document"} ELSE {}),
                       !.text_chunks = chunks,
                       !.chunk_embeddings = get_embeddings(chunks, responses),
                       !.processed = TRUE,
                       !.embed_calls = Len(chunks),
                       !.embed_failures = Cardinality(fails \cap (1..Len(chunks)))]

\* lines 116-134.  fails: the chunk positions whose embed_content call raises.
ChunkAndEmbed(c, chunking_raised, fails) ==
    IF ~ChunkGate(c) THEN c
    ELSE IF chunking_raised
    THEN [c EXCEPT !.calls = @ \cup {"split"},
                   !.embeddings_generated = FALSE,
                   !.document_text = None,
                   !.text_chunks = <<>>,
                   !.chunk_embeddings = <<>>]
    ELSE LET chunks == get_text_chunks(c.document_text)
             responses == [i \in 1..Len(chunks) |->
                              IF i \in fails THEN Raised
                              ELSE Returned(EmbeddingOf(chunks[i]))]
         IN  [c EXCEPT !.calls = @ \cup {"split"}
                                   \cup (IF chunks # <<>> THEN {"embed_document"} ELSE {}),
                       !.text_chunks = chunks,
                       !.chunk_embeddings = get_embeddings(chunks, responses),
                       !.embeddings_generated = TRUE,
                       !.processed = TRUE,
                       !.embed_calls = Len(chunks),
                       !.embed_failures = Cardinality(fails \cap (1..Len(chunks)))]

\* "Error" in summary_text, on the words of the summary
ContainsError(summary) == \E i \in 1..Len(summary) : summary[i] = "Error"

\* "Could not generate summary." in summary_text
ContainsCouldNot(summary) ==
    \E i \in 0..(Len(summary) - Len(COULD_NOT_GENERATE_SUMMARY)) :
        SubSeq(summary, i + 1, i + Len(COULD_NOT_GENERATE_SUMMARY)) = COULD_NOT_GENERATE_SUMMARY

\* line 138
SummaryGate(c) ==
    c.file_processed /\ c.embeddings_generated /\ c.document_summary = AWAITING_SUMMARY

\* lines 138-146
AutoSummary(c, gen) ==
    IF ~SummaryGate(c) THEN c
    ELSE LET r == get_document_summary(c.document_text, gen)
             summary_text == r.value
             calls == IF "generate" \in r.calls THEN {"generate_summary"} ELSE {}
         IN  IF Truthy(summary_text) /\ ~ContainsError(summary_text)
                                     /\ ~ContainsCouldNot(summary_text)
             THEN [c EXCEPT !.calls = @ \cup calls, !.document_summary = summary_text]
             ELSE [c EXCEPT !.calls = @ \cup calls, !.document_summary = FAILED_SUMMARY]

\* lines 74-146: the upload section of the script
UploadSection(c, file, extraction, chunking_raised, fails, gen) ==
    IF file = NoFile THEN c
    ELSE Bind(IF NewUpload(c, file)
              THEN ExtractText(ResetForNewUpload(c, file), file, extraction)
              ELSE c, LAMBDA c1 :
         Bind(ChunkAndEmbed(c1, chunking_raised, fails), LAMBDA c2 :
              AutoSummary(c2, gen)))

\* the state in which the upload section reaches line 116
AtChunking(c, file, extraction) ==
    IF NewUpload(c, file) THEN ExtractText(ResetForNewUpload(c, file), file, extraction) ELSE c

\* What the user's widgets hold in a run: the radio's mode, a submitted chat
\* prompt (or none), the button clicked (at most one is True in a run) and
\* the text areas' values.
AnswerValues == {<<>>, <<"x">>}

Widgets == [1..DefaultNumQuestions -> AnswerValues]

Modes == {"Ask Anything", "Challenge Me"}

\* lines 176-202: a prompt was submitted.  answer is the outcome of
\* answer_question_with_rag on the session's document.
AskAnything(c, prompt, query_embedding, sorted_indices, gen) ==
    IF ~c.embeddings_generated
    THEN [c EXCEPT !.warned = @ \cup {"process a document first"}]
    ELSE Bind(answer_question_with_rag(prompt, c.document_text, c.text_chunks,
                                       c.chunk_embeddings, gen, query_embedding,
                                       sorted_indices), LAMBDA r :
             LET asked == Append(c.messages, [role |-> "user", content |-> prompt,
                                              turn |-> Len(c.messages)])
             IN  IF r.raised
                 THEN [c EXCEPT !.messages = asked, !.crashed = TRUE]
                 ELSE [c EXCEPT !.messages = Append(asked,
                                    [role |-> "assistant", content |-> r.value[1],
                                     justification |-> r.value[2], snippets |-> r.value[3],
                                     turn |-> Len(asked)])])

\* the click storing the new questions next to the answers and evaluations
\* of the previous ones
GenerateNewQuestions_KeepsAnswers(c, gen) ==
    Bind(generate_challenge_questions(c.document_text, gen, DefaultNumQuestions), LAMBDA r :
        [c EXCEPT !.challenge_questions = r.value])

\* lines 216-228: "Generate New Questions" was clicked
GenerateNewQuestions(c, gen) ==
    Bind(generate_challenge_questions(c.document_text, gen, DefaultNumQuestions), LAMBDA r :
        LET n == Len(r.value)
        IN  [c EXCEPT !.challenge_questions = r.value,
                  !.challenge_answers = [i \in 1..n |-> <<>>],
                  !.challenge_evaluations = [i \in 1..n |-> ""]])

\* lines 233-264: question i of the Challenge Me loop.  An index past the end
\* of challenge_answers or challenge_evaluations raises IndexError, and so ends
\* the run, as does an exception leaving evaluate_user_answer.
ChallengeQuestion(c, i, widget, submit, query_embedding, sorted_indices, gen) ==
    IF i > Len(c.challenge_answers) THEN [c EXCEPT !.crashed = TRUE]
    ELSE LET user_challenge_answer == widget[i]
             c1 == [c EXCEPT !.challenge_answers[i] = user_challenge_answer]
         IN  IF submit = i /\ Strip(user_challenge_answer) # <<>>
             THEN Bind(evaluate_user_answer(c.challenge_questions[i], user_challenge_answer,
                                            c.document_text, c.text_chunks,
                                            c.chunk_embeddings, gen, query_embedding,
                                            sorted_indices), LAMBDA r :
                      IF r.raised \/ i > Len(c.challenge_evaluations)
                      THEN [c1 EXCEPT !.crashed = TRUE]
                      ELSE [c1 EXCEPT !.challenge_evaluations[i] = r.value[1]])
             ELSE IF i > Len(c.challenge_evaluations) THEN [c1 EXCEPT !.crashed = TRUE]
             ELSE c1

\* lines 232-265: the loop from question i on
RECURSIVE ChallengeLoop(_, _, _, _, _, _, _)
ChallengeLoop(c, i, widget, submit, query_embedding, sorted_indices, gen) ==
    IF i > Len(c.challenge_questions) THEN c
    ELSE Bind(ChallengeQuestion(c, i, widget, submit, query_embedding, sorted_indices, gen),
              LAMBDA d : IF d.crashed THEN d
                         ELSE ChallengeLoop(d, i + 1, widget, submit, query_embedding,
                                            sorted_indices, gen))

\* line 156: the gate of the interaction modes
InteractionEnabled(c) ==
    Truthy(c.document_text) /\ Truthy(c.text_chunks) /\ Truthy(c.chunk_embeddings)

\* lines 156-273: the interaction section of the script
InteractionSection(c, ui, query_embedding, sorted_indices, gen) ==
    IF ~InteractionEnabled(c)
    THEN [c EXCEPT !.warned = @ \cup {"upload a document"}]
    ELSE Bind([c EXCEPT !.interaction_enabled = TRUE], LAMBDA e :
             IF ui.mode = "Ask Anything"
             THEN IF ui.prompt = "" THEN e
                  ELSE AskAnything(e, ui.prompt, query_embedding, sorted_indices, gen)
             ELSE Bind(IF ui.generate THEN GenerateNewQuestions(e, gen) ELSE e, LAMBDA g :
                      ChallengeLoop(g, 1, ui.widget, ui.submit, query_embedding,
                                    sorted_indices, gen)))

----------------------------------------------------------------------------
(* The script runs of a session.  Each action is one run of the whole       *)
(* script, started by one user action; the outcome of every external call   *)
(* the run makes is chosen among the outcomes that call can have.           *)

\* the outcomes of the embed_content call for the user's query
QueryOutcomes == {Raised, Returned(<<2, 1>>)}

NotRun == [kind |-> "not_run", content |-> None]

NoAnswers == [i \in 1..DefaultNumQuestions |-> <<>>]

Idle(mode) == [mode |-> mode, prompt |-> "", generate |-> FALSE, submit |-> 0,
               widget |-> NoAnswers]

\* the questions the Challenge Me loop shows in this run
QuestionsShown(c, ui, gen) ==
    IF ~InteractionEnabled(c) \/ ui.mode # "Challenge Me" THEN 0
    ELSE IF ui.generate
    THEN Len(generate_challenge_questions(c.document_text, gen, DefaultNumQuestions).value)
    ELSE Len(c.challenge_questions)

\* whether the run calls evaluate_user_answer (lines 246-252): the clicked
\* question is shown and its text area holds more than whitespace
Evaluates(c, ui, widget) ==
    /\ InteractionEnabled(c) /\ ui.mode = "Challenge Me"
    /\ ui.submit \in 1..Len(c.challenge_questions)
    /\ Strip(widget[ui.submit]) # <<>>

\* the outcomes of generate_content for "Generate New Questions"
QuestionChoices(c, ui) ==
    IF InteractionEnabled(c) /\ ui.generate
    THEN {Raised} \cup {Returned(t) : t \in GeneratedResponses}
    ELSE {Raised}

\* the outcomes of embed_content for the user's query, when the run makes it
QueryChoices(c, ui, widget) ==
    IF (InteractionEnabled(c) /\ ui.prompt # "") \/ Evaluates(c, ui, widget)
    THEN QueryOutcomes
    ELSE {Raised}

\* the outcomes of generate_content for an answer or a verdict: the call is
\* made once the query was embedded
GenChoices(c, ui, widget, query_embedding) ==
    IF query_embedding = Raised THEN {Raised}
    ELSE IF InteractionEnabled(c) /\ ui.prompt # ""
    THEN {Raised} \cup {Returned(t) : t \in GeneratedAnswers}
    ELSE IF Evaluates(c, ui, widget)
    THEN {Raised} \cup {Returned(t) : t \in GeneratedVerdicts}
    ELSE {Raised}

Commit(c) ==
    /\ document_text' = c.document_text
    /\ text_chunks' = c.text_chunks
    /\ chunk_embeddings' = c.chunk_embeddings
    /\ document_summary' = c.document_summary
    /\ challenge_questions' = c.challenge_questions
    /\ challenge_answers' = c.challenge_answers
    /\ challenge_evaluations' = c.challenge_evaluations
    /\ uploaded_file_id' = c.uploaded_file_id
    /\ file_processed' = c.file_processed
    /\ embeddings_generated' = c.embeddings_generated
    /\ messages' = c.messages
    /\ run' = [calls |-> c.calls, warned |-> c.warned,
               crashed |-> c.crashed, new_upload |-> c.new_upload,
               extraction |-> c.extraction, processed |-> c.processed,
               embed_calls |-> c.embed_calls, embed_failures |-> c.embed_failures,
               interaction_enabled |-> c.interaction_enabled]

\* One run of app.py with `file` in the uploader and the widgets as in ui.
ScriptRun(file, ui) ==
    \E c0 \in {Begin} :
    \E extraction \in (IF NewUpload(c0, file) THEN ExtractOutcomes(file.type) ELSE {NotRun}) :
    \E c1 \in {AtChunking(c0, file, extraction)} :
    \E chunking_raised \in (IF file # NoFile /\ ChunkGate(c1) THEN BOOLEAN ELSE {FALSE}) :
    \E fails \in (IF file # NoFile /\ ChunkGate(c1) /\ ~chunking_raised
                  THEN SUBSET (1..Len(get_text_chunks(c1.document_text)))
                  ELSE {{}}) :
    \E c2 \in {ChunkAndEmbed(c1, chunking_raised, fails)} :
    \E gen_summary \in (IF file # NoFile /\ SummaryGate(c2)
                        THEN {Raised} \cup {Returned(t) : t \in GeneratedSummaries}
                        ELSE {Raised}) :
    \E c3 \in {UploadSection(c0, file, extraction, chunking_raised, fails, gen_summary)} :
    \E gen_questions \in QuestionChoices(c3, ui) :
    \E shown \in {QuestionsShown(c3, ui, gen_questions)} :
    \E widget \in {w \in Widgets : \A i \in 1..DefaultNumQuestions : i > shown => w[i] = <<>>} :
    \E query_embedding \in QueryChoices(c3, ui, widget) :
    \E sorted_indices \in RankingsFor(query_embedding, c3.chunk_embeddings) :
    \E gen \in (IF ui.generate THEN {gen_questions}
                ELSE GenChoices(c3, ui, widget, query_embedding)) :
    \E c4 \in {InteractionSection(c3, [ui EXCEPT !.widget = widget],
                                  query_embedding, sorted_indices, gen)} :
        /\ Commit(c4)
        /\ uploaded_file' = file
        /\ UNCHANGED <<args, ret>>

\* The user puts a new file into the uploader: a new file has a new file_id.
\* (The radio's mode makes no difference to a run without a prompt or a click
\* whose upload section has emptied challenge_questions.)
UploadFile ==
    \E file \in Files :
        /\ file.file_id # uploaded_file_id
        /\ ScriptRun(file, Idle("Ask Anything"))

\* the user removes the file from the uploader
RemoveFile ==
    /\ uploaded_file # NoFile
    /\ \E mode \in Modes : ScriptRun(NoFile, Idle(mode))

\* the user switches the mode or edits a text area
Rerun ==
    /\ run.interaction_enabled
    /\ \E mode \in Modes : ScriptRun(uploaded_file, Idle(mode))

\* the user submits a prompt in the chat input
SubmitPrompt ==
    /\ run.interaction_enabled
    /\ Len(messages) + 2 <= MaxMessages
    /\ ScriptRun(uploaded_file, [Idle("Ask Anything") EXCEPT !.prompt = "q"])

\* the user clicks "Generate New Questions"
ClickGenerate ==
    /\ run.interaction_enabled
    /\ ScriptRun(uploaded_file, [Idle("Challenge Me") EXCEPT !.generate = TRUE])

\* the user clicks "Submit Answer for Q<i>"
ClickSubmitAnswer ==
    /\ run.interaction_enabled
    /\ \E i \in 1..Len(challenge_questions) :
          ScriptRun(uploaded_file, [Idle("Challenge Me") EXCEPT !.submit = i])

Init ==
    /\ SessionInit
    /\ args = <<>>
    /\ ret = NoCall

Next ==
    \/ UploadFile
    \/ RemoveFile
    \/ Rerun
    \/ SubmitPrompt
    \/ ClickGenerate
    \/ ClickSubmitAnswer

Spec == Init /\ [][Next]_vars

----------------------------------------------------------------------------
(* Claims about the session, checked under Spec *)

\* C1: after a document-processing pass that completes without raising, the
\* stored text_chunks and chunk_embeddings have the same length and
\* chunk_embeddings[i] is the embedding of text_chunks[i], whichever embedding
\* calls failed.
C1_ChunksAlignedWithEmbeddings ==
    run.processed =>
        /\ Len(text_chunks) = Len(chunk_embeddings)
        /\ \A i \in 1..Len(chunk_embeddings) : chunk_embeddings[i] = EmbeddingOf(text_chunks[i])

\* C2: at the end of every script run document_text, text_chunks and
\* chunk_embeddings are all populated or all reset (None, [], []).
C2_AllPopulatedOrAllReset ==
    \/ Truthy(document_text) /\ Truthy(text_chunks) /\ Truthy(chunk_embeddings)
    \/ document_text = None /\ text_chunks = <<>> /\ chunk_embeddings = <<>>

\* C3: when every embedding call of a batch (of two chunks or more) fails, the
\* run ends with document_text = None, text_chunks = [], chunk_embeddings = []
\* and embeddings_generated = False, so that a later attempt passes the gate
\* of line 116 again.
C3_SystemicFailureResets ==
    (run.embed_calls >= 2 /\ run.embed_failures = run.embed_calls) =>
        /\ document_text = None
        /\ text_chunks = <<>>
        /\ chunk_embeddings = <<>>
        /\ ~embeddings_generated

\* C10: when the text extraction of a newly uploaded file raises or returns
\* an absent or empty result, the run ends with document_text = None,
\* file_processed = False, text_chunks = [] and chunk_embeddings = [], makes no
\* chunking, embedding or summary call, and the interaction modes are
\* disabled in that run and in every run that ends without a document.
C10_ExtractionFailureLeavesNothing ==
    /\ run.extraction \in {"raised", "empty", "unsupported"} =>
          /\ document_text = None
          /\ ~file_processed
          /\ text_chunks = <<>>
          /\ chunk_embeddings = <<>>
          /\ run.calls \cap {"split", "embed_document", "generate_summary"} = {}
          /\ ~run.interaction_enabled
    /\ document_text = None => ~run.interaction_enabled

\* the extraction of the second file uploaded raised
C10_Witness ==
    /\ run.extraction = "raised"
    /\ "extract" \in run.calls
    /\ uploaded_file_id = 2

\* the calls of the upload section that read or process the file
ProcessingCalls == {"extract", "split", "embed_document"}

\* In a state whose uploader holds the file already stored and whose
\* embeddings_generated is True, the upload section of the next run, whatever
\* its external calls would return, calls nothing and writes none of the
\* document state, the chat history and the challenge lists.
C11_SameFileFrame ==
    (uploaded_file # NoFile /\ uploaded_file.file_id = uploaded_file_id
                            /\ embeddings_generated) =>
        \A extraction \in ExtractOutcomes(uploaded_file.type) \cup {NotRun},
           chunking_raised \in BOOLEAN,
           fails \in SUBSET (1..MaxChunks),
           gen \in {Raised} \cup {Returned(t) : t \in GeneratedSummaries} :
            LET u == UploadSection(Begin, uploaded_file, extraction,
                                   chunking_raised, fails, gen)
            IN  /\ u.calls = {}
                /\ ~u.new_upload
                /\ u.document_text = document_text
                /\ u.text_chunks = text_chunks
                /\ u.chunk_embeddings = chunk_embeddings
                /\ u.messages = messages
                /\ u.challenge_questions = challenge_questions
                /\ u.challenge_answers = challenge_answers
                /\ u.challenge_evaluations = challenge_evaluations

\* a run with the stored file in the uploader and embeddings_generated True
C11_RerunStep ==
    (uploaded_file' # NoFile /\ uploaded_file'.file_id = uploaded_file_id
                             /\ embeddings_generated) =>
        /\ ~run'.new_upload
        /\ run'.calls \cap ProcessingCalls = {}
        /\ document_text' = document_text
        /\ text_chunks' = text_chunks
        /\ chunk_embeddings' = chunk_embeddings

\* a run with a file of another id in the uploader: nothing of the previous
\* document is left, the document state is that of the new file
C11_NewUploadStep ==
    (uploaded_file' # NoFile /\ uploaded_file'.file_id # uploaded_file_id) =>
        /\ run'.new_upload
        /\ uploaded_file_id' = uploaded_file'.file_id
        /\ messages' = <<>>
        /\ challenge_questions' = <<>>
        /\ challenge_answers' = <<>>
        /\ challenge_evaluations' = <<>>
        /\ run'.extraction # "text" =>
               document_text' = None /\ text_chunks' = <<>> /\ chunk_embeddings' = <<>>
        /\ run'.extraction = "text" =>
               /\ document_text' \in Documents \cup {None}
               /\ text_chunks' = (IF document_text' = None THEN <<>>
                                  ELSE get_text_chunks(document_text'))
               /\ Len(chunk_embeddings') <= Len(text_chunks')
               /\ \A i \in 1..Len(chunk_embeddings') :
                      \E j \in 1..Len(text_chunks') :
                          chunk_embeddings'[i] = EmbeddingOf(text_chunks'[j])

\* C11: the document state is replaced only on a new upload.  A rerun with the
\* stored file's id in the uploader and embeddings_generated True makes no
\* extraction, chunking or embedding call and its upload section leaves
\* document_text, text_chunks, chunk_embeddings, messages and the challenge
\* lists as they were; a run with another file id clears all of them, the
\* chat history and the challenge lists of the previous document included,
\* and what it stores comes from the new file.
C11_ReplacedOnlyOnNewUpload ==
    []C11_SameFileFrame /\ [][C11_RerunStep /\ C11_NewUploadStep]_vars

\* a rerun on the stored document has ended with a chat history and
\* challenge questions written by the interaction section
C11_Witness ==
    /\ uploaded_file # NoFile
    /\ uploaded_file.file_id = uploaded_file_id
    /\ embeddings_generated
    /\ ~run.new_upload
    /\ run.interaction_enabled
    /\ messages # <<>>
    /\ challenge_questions # <<>>

\* C12: at the end of every script run a non-empty chunk_embeddings implies
\* embeddings_generated = True, and no run shows the "Please upload and
\* process a document first" warning of Ask Anything (line 180): a prompt is
\* read only behind the gate of line 156, which needs chunk_embeddings
\* non-empty.
C12_EmbeddingsImplyFlag ==
    /\ chunk_embeddings # <<>> => embeddings_generated
    /\ "process a document first" \notin run.warned
    /\ run.interaction_enabled => embeddings_generated

\* a prompt was submitted in Ask Anything and went past the guard of line 179
C12_Witness ==
    /\ run.interaction_enabled
    /\ ~run.new_upload
    /\ chunk_embeddings # <<>>
    /\ messages # <<>>
    /\ messages[Len(messages)].role = "assistant"

\* C13: after any sequence of uploads, "Generate New Questions" clicks (also
\* failed ones and ones returning fewer questions than requested) and answer
\* submissions, challenge_answers and challenge_evaluations each have exactly
\* the length of challenge_questions, so that every index the Challenge Me
\* loop reads or writes (lines 235-236, 251, 261) is in range.
C13_ChallengeListsAligned ==
    /\ Len(challenge_answers) = Len(challenge_questions)
    /\ Len(challenge_evaluations) = Len(challenge_questions)
    /\ \A i \in 1..Len(challenge_questions) :
          i \in DOMAIN challenge_answers /\ i \in DOMAIN challenge_evaluations

\* fewer questions than requested were generated, and an answer to the last
\* of them was submitted and evaluated
C13_Witness ==
    /\ challenge_questions # <<>>
    /\ Len(challenge_questions) < DefaultNumQuestions
    /\ challenge_answers[Len(challenge_questions)] # <<>>
    /\ challenge_evaluations[Len(challenge_questions)] # ""

====
